---- MODULE Spec2Model ----
(***************************************************************************)
(* Model of the inventory backend (Express server over a flat JSON file).  *)
(*                                                                         *)
(* Every route handler is synchronous from readData() to res.json(): Node  *)
(* runs it to completion on its single thread, so one handler is one       *)
(* atomic action.  The state is the backing document, the wall clock as    *)
(* last read, and a record of the last request with its response.          *)
(* LoopSpec takes the mutating handlers in two steps, the read and the     *)
(* write, with the requests that wait for the event loop.  PageSpec is the *)
(* API-backed page of frontend/script.js: its event handlers, each up to   *)
(* its next await, and the responses to its fetches.                       *)
(*                                                                         *)
(* JSON values are tagged records of one shape so that values of different *)
(* JavaScript types can be compared.  A string is kept by name and         *)
(* Chars gives its characters, on which toLowerCase, includes and parseInt *)
(* work.  Numbers are integers (prices in cents).  An ISO-8601 timestamp   *)
(* string is the tick it denotes.  A JavaScript object is a function from  *)
(* the keys it has to values; a key that is missing is `undefined`.        *)
(***************************************************************************)
EXTENDS Integers, Sequences, FiniteSets, Bags, TLC

VARIABLES file, now, nwrites, last

\* The server process seen one step finer: the requests that have arrived and
\* wait for the event loop, the handlers that have called readData() and not
\* yet writeData(), what each mutating request answered 2xx had read, and the
\* number of requests that have arrived.
VARIABLES pending, running, reads, arrived

server == <<pending, running, reads, arrived>>

\* The page (frontend/script.js): its two globals, the item whose fields
\* openModal put into the form, which of the two dialogs are displayed, the
\* id last passed to deleteItem, the fetches awaiting their response, and
\* the last PUT, POST or DELETE the page sent.
VARIABLES currentItemId, isEditMode, formItem, modalShown, confirmShown,
          deleteArg, fetches, sent

page == <<currentItemId, isEditMode, formItem, modalShown, confirmShown,
          deleteArg, fetches, sent>>

backend == <<file, now, nwrites, last>>

vars == <<file, now, nwrites, last, pending, running, reads, arrived,
          currentItemId, isEditMode, formItem, modalShown, confirmShown,
          deleteArg, fetches, sent>>

\* ---------------------------------------------------------------- bounds
\* Successful writes of the backing document in one run; a mutating
\* request is taken only while fewer have been done.
MaxWrites == 1

\* Requests that arrive at the server in one run of the finer specification.
MaxArrived == 3

\* Fetches of the page that await their response at one time.
MaxInFlight == 2

\* ---------------------------------------------------------------- values
Str(s) == [t |-> "str", s |-> s, n |-> 0]

Num(n) == [t |-> "num", s |-> "", n |-> n]

Null == [t |-> "null", s |-> "", n |-> 0]

NaN == [t |-> "nan", s |-> "", n |-> 0]

\* The string new Date(tick).toISOString(); ticks order as the instants do.
Iso(tick) == [t |-> "iso", s |-> "", n |-> tick]

\* The characters of the strings that occur.
CharTable ==
    ("Laptop" :> <<"L", "a", "p", "t", "o", "p">>)
    @@ ("LP001" :> <<"L", "P", "0", "0", "1">>)
    @@ ("Electronics" :> <<"E", "l", "e", "c", "t", "r", "o", "n", "i", "c", "s">>)
    @@ ("Tech Corp" :> <<"T", "e", "c", "h", " ", "C", "o", "r", "p">>)
    @@ ("Warehouse A" :> <<"W", "a", "r", "e", "h", "o", "u", "s", "e", " ", "A">>)
    @@ ("Desk Chair" :> <<"D", "e", "s", "k", " ", "C", "h", "a", "i", "r">>)
    @@ ("DC001" :> <<"D", "C", "0", "0", "1">>)
    @@ ("Office" :> <<"O", "f", "f", "i", "c", "e">>)
    @@ ("Furniture Plus" :> <<"F", "u", "r", "n", "i", "t", "u", "r", "e", " ", "P", "l", "u", "s">>)
    @@ ("Warehouse B" :> <<"W", "a", "r", "e", "h", "o", "u", "s", "e", " ", "B">>)
    @@ ("Wireless Mouse" :> <<"W", "i", "r", "e", "l", "e", "s", "s", " ", "M", "o", "u", "s", "e">>)
    @@ ("WM001" :> <<"W", "M", "0", "0", "1">>)
    @@ ("Widget" :> <<"W", "i", "d", "g", "e", "t">>)
    @@ ("W1" :> <<"W", "1">>)
    @@ ("Gadget" :> <<"G", "a", "d", "g", "e", "t">>)
    @@ ("G1" :> <<"G", "1">>)
    @@ ("office" :> <<"o", "f", "f", "i", "c", "e">>)
    @@ ("electronics" :> <<"e", "l", "e", "c", "t", "r", "o", "n", "i", "c", "s">>)
    @@ ("mouse" :> <<"m", "o", "u", "s", "e">>)
    @@ ("MOUSE" :> <<"M", "O", "U", "S", "E">>)
    @@ ("tech" :> <<"t", "e", "c", "h">>)
    @@ ("x" :> <<"x">>)
    @@ ("1" :> <<"1">>)
    @@ ("2" :> <<"2">>)
    @@ ("3" :> <<"3">>)
    @@ ("4" :> <<"4">>)

Chars(s) == IF s = "" THEN <<>> ELSE CharTable[s]

\* A value is truthy unless it is "", 0, null or NaN (a missing key is the
\* caller's case).
Truthy(v) ==
    \/ v.t = "str" /\ v.s # ""
    \/ v.t = "iso"
    \/ v.t = "num" /\ v.n # 0

Has(o, k) == k \in DOMAIN o

\* { ...a, ...b }
Spread(a, b) ==
    [k \in (DOMAIN a) \cup (DOMAIN b) |-> IF k \in DOMAIN b THEN b[k] ELSE a[k]]

Digits == <<"0", "1", "2", "3", "4", "5", "6", "7", "8", "9">>

IsDigit(c) == \E i \in 1..Len(Digits) : Digits[i] = c

DigitVal(c) == (CHOOSE i \in 1..Len(Digits) : Digits[i] = c) - 1

RECURSIVE DigitsValue(_)
DigitsValue(cs) ==
    IF cs = <<>> THEN 0
    ELSE Len(Digits) * DigitsValue(SubSeq(cs, 1, Len(cs) - 1)) + DigitVal(cs[Len(cs)])

RECURSIVE LeadingDigits(_)
LeadingDigits(cs) ==
    IF cs = <<>> \/ ~IsDigit(Head(cs)) THEN <<>>
    ELSE <<Head(cs)>> \o LeadingDigits(Tail(cs))

\* parseInt(req.params.id): the leading decimal digits, NaN when there are none.
ParseInt(s) ==
    LET d == LeadingDigits(Chars(s))
    IN  IF d = <<>> THEN NaN ELSE Num(DigitsValue(d))

\* a === b: no coercion, and NaN equals nothing.
StrictEq(v, w) == v.t # "nan" /\ w.t # "nan" /\ v = w

\* ToNumber, as Math.max applies it to each argument.
ToNumber(v) ==
    CASE v.t = "num" -> v
      [] v.t = "null" -> Num(0)
      [] v.t = "str" ->
            IF \A i \in 1..Len(Chars(v.s)) : IsDigit(Chars(v.s)[i])
            THEN Num(DigitsValue(Chars(v.s)))
            ELSE NaN
      [] OTHER -> NaN

IdOf(item) == IF Has(item, "id") THEN item.id ELSE NaN

RECURSIVE MathMax(_)
\* Math.max(...items.map(i => i.id)) for a non-empty items.
MathMax(items) ==
    LET h == ToNumber(IdOf(Head(items)))
    IN  IF Len(items) = 1 THEN h
        ELSE LET r == MathMax(Tail(items))
             IN  IF h.t = "nan" \/ r.t = "nan" THEN NaN
                 ELSE IF h.n >= r.n THEN h ELSE r

\* items.length > 0 ? Math.max(...items.map(i => i.id)) + 1 : 1
NextId(items) ==
    IF Len(items) > 0
    THEN LET m == MathMax(items) IN IF m.t = "nan" THEN NaN ELSE Num(m.n + 1)
    ELSE Num(1)

\* JSON.stringify followed by JSON.parse: NaN is written as null.
JsonValue(v) == IF v.t = "nan" THEN Null ELSE v

JsonItem(item) == [k \in DOMAIN item |-> JsonValue(item[k])]

\* JSON.stringify(data) as JSON.parse reads it back.
JsonItems(items) == [i \in 1..Len(items) |-> JsonItem(items[i])]

\* ---------------------------------------------------------------- strings
LowerOf ==
    ("A" :> "a") @@ ("B" :> "b") @@ ("C" :> "c") @@ ("D" :> "d")
    @@ ("E" :> "e") @@ ("F" :> "f") @@ ("G" :> "g") @@ ("H" :> "h")
    @@ ("I" :> "i") @@ ("J" :> "j") @@ ("K" :> "k") @@ ("L" :> "l")
    @@ ("M" :> "m") @@ ("N" :> "n") @@ ("O" :> "o") @@ ("P" :> "p")
    @@ ("Q" :> "q") @@ ("R" :> "r") @@ ("S" :> "s") @@ ("T" :> "t")
    @@ ("U" :> "u") @@ ("V" :> "v") @@ ("W" :> "w") @@ ("X" :> "x")
    @@ ("Y" :> "y") @@ ("Z" :> "z")

\* One character of s.toLowerCase(): only A to Z change.
LowerChar(c) == IF c \in DOMAIN LowerOf THEN LowerOf[c] ELSE c

\* s.toLowerCase(), on characters
ToLowerCase(cs) == [i \in 1..Len(cs) |-> LowerChar(cs[i])]

\* hay.includes(needle), on characters
Includes(hay, needle) ==
    \E i \in 0..(Len(hay) - Len(needle)) :
        \A j \in 1..Len(needle) : hay[i + j] = needle[j]

\* ---------------------------------------------------------------- seed
Seed ==
    << [id |-> Num(1), productName |-> Str("Laptop"), sku |-> Str("LP001"),
        category |-> Str("Electronics"), quantity |-> Num(15),
        price |-> Num(99999), supplier |-> Str("Tech Corp"),
        location |-> Str("Warehouse A"), lastUpdated |-> Iso(2)],
       [id |-> Num(2), productName |-> Str("Desk Chair"), sku |-> Str("DC001"),
        category |-> Str("Office"), quantity |-> Num(8), price |-> Num(14999),
        supplier |-> Str("Furniture Plus"), location |-> Str("Warehouse B"),
        lastUpdated |-> Iso(1)],
       [id |-> Num(3), productName |-> Str("Wireless Mouse"),
        sku |-> Str("WM001"), category |-> Str("Electronics"),
        quantity |-> Num(3), price |-> Num(2999), supplier |-> Str("Tech Corp"),
        location |-> Str("Warehouse A"), lastUpdated |-> Iso(3)] >>

\* The backing document: readable with its array of items, or left
\* truncated by a write that failed part-way (JSON.parse then throws).
Readable(items) == [ok |-> TRUE, items |-> items]

Corrupt == [ok |-> FALSE, items |-> <<>>]

\* ---------------------------------------------------------------- inputs
Without(o, k) == [x \in (DOMAIN o) \ {k} |-> o[x]]

Required == {"productName", "sku", "quantity", "price"}

pWidget ==
    [productName |-> Str("Widget"), sku |-> Str("W1"), quantity |-> Num(5),
     price |-> Num(999)]

\* A body that carries its own id and lastUpdated.
pForged ==
    [productName |-> Str("Gadget"), sku |-> Str("G1"), quantity |-> Num(0),
     price |-> Num(450), category |-> Str("office"),
     supplier |-> Str("Tech Corp"), id |-> Num(1), lastUpdated |-> Iso(0)]

\* A body whose productName is a number.
pUntyped ==
    [productName |-> Num(5), sku |-> Str("G1"), quantity |-> Num(2),
     price |-> Num(450)]

\* A body whose id is a string.
pTextId == Spread(pWidget, [id |-> Str("x")])

CreateBodies ==
    {pWidget, pForged, pUntyped, pTextId} \cup {Without(pWidget, k) : k \in Required}

UpdateBodies ==
    { [quantity |-> Num(9)],
      [id |-> Num(2), lastUpdated |-> Iso(0), category |-> Str("office")],
      [productName |-> Null] }

\* req.params.id
IdParams == {"1", "2", "3", "4", "x"}

\* A query parameter: missing from the query string, or its string.
QAbsent == [present |-> FALSE, s |-> ""]

Q(s) == [present |-> TRUE, s |-> s]

\* req.query as <<search, category>>
Queries ==
    { <<QAbsent, QAbsent>>, <<Q("mouse"), QAbsent>>, <<Q("MOUSE"), QAbsent>>,
      <<Q("tech"), Q("Electronics")>>, <<QAbsent, Q("Electronics")>>,
      <<QAbsent, Q("electronics")>>, <<Q("G1"), Q("office")>>,
      <<Q(""), Q("")>> }

\* What the file system does to this request: nothing wrong, readFileSync
\* throws, writeFileSync throws with the document as it was, writeFileSync
\* throws after truncating the document.
ReadOutcomes == {"ok", "readfail"}

WriteOutcomes == {"ok", "readfail", "writefail", "partial"}

\* ---------------------------------------------------------------- handlers
IsString(v) == v.t = "str" \/ v.t = "iso"

\* item[k].toLowerCase().includes(term): "throw" when item[k] is undefined,
\* null or has no toLowerCase.
FieldIncludes(item, k, term) ==
    IF ~Has(item, k) \/ ~IsString(item[k]) THEN "throw"
    ELSE IF Includes(ToLowerCase(Chars(item[k].s)), term) THEN "yes" ELSE "no"

\* (item[k] && item[k].toLowerCase().includes(term))
GuardedIncludes(item, k, term) ==
    IF ~Has(item, k) \/ ~Truthy(item[k]) THEN "no" ELSE FieldIncludes(item, k, term)

\* a || b, evaluated left to right
OrElse(a, b) == IF a = "no" THEN b ELSE a

\* The search predicate of the filter callback.
SearchMatch(item, term) ==
    OrElse(FieldIncludes(item, "productName", term),
      OrElse(FieldIncludes(item, "sku", term),
        OrElse(GuardedIncludes(item, "supplier", term),
               GuardedIncludes(item, "location", term))))

\* item.category === category
CategoryMatch(item, category) ==
    Has(item, "category") /\ StrictEq(item.category, Str(category))

\* if (search) / if (category): a missing or empty parameter is falsy.
Given(q) == q.present /\ q.s # ""

\* GET /api/items after readData(): the filtered items, or thrown.
ListItems(items, search, category) ==
    LET term == ToLowerCase(Chars(search.s))
        thrown == Given(search) /\
                  \E i \in 1..Len(items) : SearchMatch(items[i], term) = "throw"
        kept(it) == /\ Given(search) => SearchMatch(it, term) = "yes"
                    /\ Given(category) => CategoryMatch(it, category.s)
    IN  IF thrown THEN [threw |-> TRUE, items |-> <<>>]
        ELSE [threw |-> FALSE, items |-> SelectSeq(items, kept)]

\* items.findIndex(i => i.id === parseInt(req.params.id)), 0 for -1.
FindIndex(items, param) ==
    LET hits == {i \in 1..Len(items) : StrictEq(IdOf(items[i]), ParseInt(param))}
    IN  IF hits = {} THEN 0 ELSE CHOOSE i \in hits : \A j \in hits : i <= j

\* The object literal with ...req.body spread last.
NewItemBodyLast(items, body, tick) ==
    Spread(Spread([id |-> NextId(items)], [lastUpdated |-> Iso(tick)]), body)

\* The object literal of POST /api/items.
NewItem(items, body, tick) ==
    Spread(Spread([id |-> NextId(items)], body), [lastUpdated |-> Iso(tick)])

\* The validation with the two `=== undefined` tests left out.
MissingRequiredNamesOnly(newItem) ==
    \/ ~Has(newItem, "productName") \/ ~Truthy(newItem.productName)
    \/ ~Has(newItem, "sku") \/ ~Truthy(newItem.sku)

\* The validation of POST /api/items.
MissingRequired(newItem) ==
    \/ ~Has(newItem, "productName") \/ ~Truthy(newItem.productName)
    \/ ~Has(newItem, "sku") \/ ~Truthy(newItem.sku)
    \/ ~Has(newItem, "quantity")
    \/ ~Has(newItem, "price")

\* The object literal without its `...items[index]` line.
UpdatedItemReplaces(old, body, tick) ==
    Spread(Spread(body, [id |-> old.id]), [lastUpdated |-> Iso(tick)])

\* The object literal without its `id: items[index].id` line.
UpdatedItemIdFromBody(old, body, tick) ==
    Spread(Spread(old, body), [lastUpdated |-> Iso(tick)])

\* The object literal of PUT /api/items/:id.
UpdatedItem(old, body, tick) ==
    Spread(Spread(Spread(old, body), [id |-> old.id]), [lastUpdated |-> Iso(tick)])

\* The assignment done for every item, the others restamped.
UpdateItemsTouchAll(items, index, updatedItem) ==
    [i \in 1..Len(items) |->
        IF i = index THEN updatedItem
        ELSE Spread(items[i], [lastUpdated |-> updatedItem.lastUpdated])]

\* items[index] = updatedItem
UpdateItems(items, index, updatedItem) == [items EXCEPT ![index] = updatedItem]

\* items.filter(i => i.id !== parseInt(req.params.id))
DeleteFilter(items, param) ==
    LET keep(it) == ~StrictEq(IdOf(it), ParseInt(param))
    IN  SelectSeq(items, keep)

NoQuery == <<QAbsent, QAbsent>>

\* The last request and its response, with the document as it was when the
\* request arrived.
Response(op, param, body, query, io, status, out) ==
    [op |-> op, id |-> param, payload |-> body, search |-> query[1],
     category |-> query[2], io |-> io, status |-> status, body |-> out,
     before |-> file, began |-> now]

\* readData(): throws when the read fails or the document does not parse.
ReadThrows(io) == io = "readfail" \/ ~file.ok

Answer(op, param, body, query, io, status, out) ==
    /\ last' = Response(op, param, body, query, io, status, out)
    /\ UNCHANGED <<file, nwrites, now>>

\* writeData(items) and what the handler answers after it; tick is the
\* clock reading the handler took.
Write(items, io, tick, op, param, body, status, out) ==
    IF io = "ok"
    THEN /\ file' = Readable(JsonItems(items))
         /\ nwrites' = nwrites + 1
         /\ now' = tick
         /\ last' = Response(op, param, body, NoQuery, io, status, out)
    ELSE /\ file' = IF io = "partial" THEN Corrupt ELSE file
         /\ last' = Response(op, param, body, NoQuery, io, 500, <<>>)
         /\ UNCHANGED <<nwrites, now>>

\* new Date(): the clock never runs backwards; it reads as it last did or later.
ClockReadings == {now, now + 1}

List(query, io) ==
    /\ UNCHANGED <<server, page>>
    /\ IF ReadThrows(io) THEN Answer("list", "", <<>>, query, io, 500, <<>>)
       ELSE LET r == ListItems(file.items, query[1], query[2])
            IN  IF r.threw THEN Answer("list", "", <<>>, query, io, 500, <<>>)
                ELSE Answer("list", "", <<>>, query, io, 200, r.items)

Get(param, io) ==
    /\ UNCHANGED <<server, page>>
    /\ IF ReadThrows(io) THEN Answer("get", param, <<>>, NoQuery, io, 500, <<>>)
       ELSE LET i == FindIndex(file.items, param)
            IN  IF i = 0 THEN Answer("get", param, <<>>, NoQuery, io, 404, <<>>)
                ELSE Answer("get", param, <<>>, NoQuery, io, 200,
                            <<file.items[i]>>)

Create(body, io) ==
    /\ nwrites < MaxWrites
    /\ UNCHANGED <<server, page>>
    /\ IF ReadThrows(io) THEN Answer("create", "", body, NoQuery, io, 500, <<>>)
       ELSE IF MissingRequired(NewItem(file.items, body, now))
       THEN Answer("create", "", body, NoQuery, io, 400, <<>>)
       ELSE \E tick \in ClockReadings :
               LET newItem == NewItem(file.items, body, tick)
               IN  Write(Append(file.items, newItem), io, tick, "create", "",
                         body, 201, <<JsonItem(newItem)>>)

Update(param, body, io) ==
    /\ nwrites < MaxWrites
    /\ UNCHANGED <<server, page>>
    /\ IF ReadThrows(io) THEN Answer("update", param, body, NoQuery, io, 500, <<>>)
       ELSE LET i == FindIndex(file.items, param)
            IN  IF i = 0 THEN Answer("update", param, body, NoQuery, io, 404, <<>>)
                ELSE \E tick \in ClockReadings :
                        LET updatedItem == UpdatedItem(file.items[i], body, tick)
                        IN  Write(UpdateItems(file.items, i, updatedItem), io,
                                  tick, "update", param, body, 200,
                                  <<JsonItem(updatedItem)>>)

Delete(param, io) ==
    /\ nwrites < MaxWrites
    /\ UNCHANGED <<server, page>>
    /\ IF ReadThrows(io) THEN Answer("delete", param, <<>>, NoQuery, io, 500, <<>>)
       ELSE LET items == DeleteFilter(file.items, param)
            IN  IF Len(items) = Len(file.items)
                THEN Answer("delete", param, <<>>, NoQuery, io, 404, <<>>)
                ELSE Write(items, io, now, "delete", param, <<>>, 204, <<>>)

\* ------------------------------------------------------------- the page
\* null, of currentItemId and of openModal's itemId.
NullId == 0

\* The ids of the rows of the table: editItem(${item.id}), deleteItem(${item.id}).
ItemIds == {1, 2}

\* fetch(`${API_BASE_URL}/items/${id}`, {method}); a POST goes to /items.
Fetch(method, id) == [method |-> method, id |-> id]

\* A PUT, POST or DELETE as the page sent it, with the item whose fields the
\* form held and the id last passed to deleteItem at that time.
Sent(method, id) ==
    [method |-> method, id |-> id, form |-> formItem, arg |-> deleteArg]

NoFetch == [method |-> "none", id |-> NullId, form |-> NullId, arg |-> NullId]

\* The document is the seed written on first start, or an empty array left
\* by an earlier run.  The clock starts at the newest seed stamp: the seed
\* stamps are dates that have passed.
Init ==
    /\ file \in {Readable(Seed), Readable(<<>>)}
    /\ now = 3
    /\ nwrites = 0
    /\ last = [op |-> "none", id |-> "", payload |-> <<>>, search |-> QAbsent,
               category |-> QAbsent, io |-> "ok", status |-> 0, body |-> <<>>,
               before |-> file, began |-> now]
    /\ pending = {}
    /\ running = {}
    /\ reads = <<>>
    /\ arrived = 0
    /\ currentItemId = NullId
    /\ isEditMode = FALSE
    /\ formItem = NullId
    /\ modalShown = FALSE
    /\ confirmShown = FALSE
    /\ deleteArg = NullId
    /\ fetches = EmptyBag
    /\ sent = NoFetch

Next ==
    \/ \E q \in Queries, io \in ReadOutcomes : List(q, io)
    \/ \E p \in IdParams, io \in ReadOutcomes : Get(p, io)
    \/ \E b \in CreateBodies, io \in WriteOutcomes : Create(b, io)
    \/ \E p \in IdParams, b \in UpdateBodies, io \in WriteOutcomes :
          Update(p, b, io)
    \/ \E p \in IdParams, io \in WriteOutcomes : Delete(p, io)

Spec == Init /\ [][Next]_vars

\* ------------------------------------------------ the server, step by step
\* A mutating request as it arrives.
Req(op, param, body) == [op |-> op, id |-> param, payload |-> body]

Requests ==
    { Req("create", "", pWidget), Req("create", "", pForged),
      Req("create", "", Without(pWidget, "sku")),
      Req("update", "1", [quantity |-> Num(9)]),
      Req("delete", "1", <<>>) }

\* What writeFileSync can do.
StoreOutcomes == {"ok", "writefail", "partial"}

\* The event loop with no handler left to finish.
MayStartAlways == TRUE

\* The event loop calls a handler only when the call stack is empty, and a
\* handler does not await: from readData() to res.json() it is one
\* synchronous run (readFileSync, writeFileSync).
MayStart == running = {}

\* A request arrives and waits for the event loop.
Receive(r) ==
    /\ arrived < MaxArrived
    /\ r \notin pending
    /\ pending' = pending \cup {r}
    /\ arrived' = arrived + 1
    /\ UNCHANGED <<file, now, nwrites, last, running, reads, page>>

\* The handler of a waiting request is called and reads the document; when
\* readData() throws, its catch answers 500.
HandlerReads(r, io) ==
    /\ r \in pending
    /\ MayStart
    /\ pending' = pending \ {r}
    /\ UNCHANGED <<arrived, page>>
    /\ IF ReadThrows(io)
       THEN /\ Answer(r.op, r.id, r.payload, NoQuery, io, 500, <<>>)
            /\ UNCHANGED <<running, reads>>
       ELSE /\ running' = running \cup
                    {[req |-> r, items |-> file.items, version |-> nwrites,
                      with |-> pending \ {r}]}
            /\ UNCHANGED <<file, now, nwrites, last, reads>>

\* The handler works on the items it read, writes them and answers.
HandlerWrites(h, io) ==
    /\ h \in running
    /\ running' = running \ {h}
    /\ UNCHANGED <<pending, arrived, page>>
    /\ LET op == h.req.op
           param == h.req.id
           body == h.req.payload
       IN  CASE op = "create" ->
                  IF MissingRequired(NewItem(h.items, body, now))
                  THEN Answer(op, param, body, NoQuery, io, 400, <<>>)
                  ELSE \E tick \in ClockReadings :
                          LET newItem == NewItem(h.items, body, tick)
                          IN  Write(Append(h.items, newItem), io, tick, op,
                                    param, body, 201, <<JsonItem(newItem)>>)
             [] op = "update" ->
                  LET i == FindIndex(h.items, param)
                  IN  IF i = 0
                      THEN Answer(op, param, body, NoQuery, io, 404, <<>>)
                      ELSE \E tick \in ClockReadings :
                              LET updatedItem == UpdatedItem(h.items[i], body, tick)
                              IN  Write(UpdateItems(h.items, i, updatedItem),
                                        io, tick, op, param, body, 200,
                                        <<JsonItem(updatedItem)>>)
             [] op = "delete" ->
                  LET items == DeleteFilter(h.items, param)
                  IN  IF Len(items) = Len(h.items)
                      THEN Answer(op, param, body, NoQuery, io, 404, <<>>)
                      ELSE Write(items, io, now, op, param, body, 204, <<>>)
    /\ reads' = IF last'.status \in {200, 201, 204}
                THEN Append(reads, [req |-> h.req, version |-> h.version,
                                    with |-> h.with])
                ELSE reads

LoopNext ==
    \/ \E r \in Requests : Receive(r)
    \/ \E r \in pending, io \in ReadOutcomes : HandlerReads(r, io)
    \/ \E h \in running, io \in StoreOutcomes : HandlerWrites(h, io)

LoopSpec == Init /\ [][LoopNext]_vars

\* ------------------------------------------------------ the page's steps
\* fetch(...) is called: the request awaits its response.
Await(f) ==
    /\ BagCardinality(fetches) < MaxInFlight
    /\ fetches' = fetches (+) SetToBag({f})

\* A dialog that is displayed lies over the table (a click on `modal`
\* itself is a click outside the form): the rows' buttons and the Add
\* button are reached when neither dialog is displayed.
TableReachable == ~modalShown /\ ~confirmShown

\* closeModal()
closeModal ==
    /\ modalShown' = FALSE
    /\ formItem' = NullId
    /\ currentItemId' = NullId
    /\ isEditMode' = FALSE

\* openModal(itemId) up to its await, or to its end in add mode.
openModal(itemId) ==
    IF itemId # NullId
    THEN /\ isEditMode' = TRUE
         /\ currentItemId' = itemId
         /\ Await(Fetch("GET", itemId))
         /\ UNCHANGED <<formItem, modalShown, confirmShown, deleteArg, sent>>
    ELSE /\ isEditMode' = FALSE
         /\ currentItemId' = NullId
         /\ formItem' = NullId
         /\ modalShown' = TRUE
         /\ UNCHANGED <<confirmShown, deleteArg, fetches, sent>>

\* onclick="editItem(id)" of a row.
editItem(id) ==
    /\ TableReachable
    /\ openModal(id)
    /\ UNCHANGED <<backend, server>>

\* addItemBtn: () => openModal()
addItem ==
    /\ TableReachable
    /\ openModal(NullId)
    /\ UNCHANGED <<backend, server>>

\* openModal after its await: the form is filled from the response and the
\* dialog is displayed, or, the response not ok, closeModal().
openModalResumes(f, ok) ==
    /\ f.method = "GET"
    /\ BagIn(f, fetches)
    /\ fetches' = fetches (-) SetToBag({f})
    /\ IF ok
       THEN /\ formItem' = f.id
            /\ modalShown' = TRUE
            /\ UNCHANGED <<currentItemId, isEditMode>>
       ELSE closeModal
    /\ UNCHANGED <<confirmShown, deleteArg, sent, backend, server>>

\* closeBtn, cancelBtn, or a click on `modal` outside the form.
closeModalClicked ==
    /\ modalShown
    /\ closeModal
    /\ UNCHANGED <<confirmShown, deleteArg, fetches, sent, backend, server>>

\* handleFormSubmit(e) up to its await, the form's fields being valid.
handleFormSubmit ==
    /\ modalShown
    /\ IF isEditMode /\ currentItemId # NullId
       THEN /\ Await(Fetch("PUT", currentItemId))
            /\ sent' = Sent("PUT", currentItemId)
       ELSE /\ Await(Fetch("POST", NullId))
            /\ sent' = Sent("POST", NullId)
    /\ UNCHANGED <<currentItemId, isEditMode, formItem, modalShown,
                   confirmShown, deleteArg, backend, server>>

\* handleFormSubmit after its await: closeModal() when the response is ok.
handleFormSubmitResumes(f, ok) ==
    /\ f.method \in {"PUT", "POST"}
    /\ BagIn(f, fetches)
    /\ fetches' = fetches (-) SetToBag({f})
    /\ IF ok THEN closeModal
       ELSE UNCHANGED <<modalShown, formItem, currentItemId, isEditMode>>
    /\ UNCHANGED <<confirmShown, deleteArg, sent, backend, server>>

\* onclick="deleteItem(id)" of a row.
deleteItem(id) ==
    /\ TableReachable
    /\ currentItemId' = id
    /\ confirmShown' = TRUE
    /\ deleteArg' = id
    /\ UNCHANGED <<isEditMode, formItem, modalShown, fetches, sent, backend,
                   server>>

\* confirmCancelBtn: the dialog is hidden, nothing else.
confirmCancel ==
    /\ confirmShown
    /\ confirmShown' = FALSE
    /\ UNCHANGED <<currentItemId, isEditMode, formItem, modalShown, deleteArg,
                   fetches, sent, backend, server>>

\* confirmDelete() up to its await.
confirmDelete ==
    /\ confirmShown
    /\ IF currentItemId = NullId
       THEN /\ confirmShown' = FALSE
            /\ UNCHANGED <<fetches, sent>>
       ELSE /\ Await(Fetch("DELETE", currentItemId))
            /\ sent' = Sent("DELETE", currentItemId)
            /\ UNCHANGED confirmShown
    /\ UNCHANGED <<currentItemId, isEditMode, formItem, modalShown, deleteArg,
                   backend, server>>

\* confirmDelete after its awaits: its finally block, whatever the response.
confirmDeleteResumes(f) ==
    /\ f.method = "DELETE"
    /\ BagIn(f, fetches)
    /\ fetches' = fetches (-) SetToBag({f})
    /\ confirmShown' = FALSE
    /\ currentItemId' = NullId
    /\ UNCHANGED <<isEditMode, formItem, modalShown, deleteArg, sent, backend,
                   server>>

PageNext ==
    \/ \E id \in ItemIds : editItem(id)
    \/ addItem
    \/ \E f \in BagToSet(fetches), ok \in BOOLEAN : openModalResumes(f, ok)
    \/ closeModalClicked
    \/ handleFormSubmit
    \/ \E f \in BagToSet(fetches), ok \in BOOLEAN :
          handleFormSubmitResumes(f, ok)
    \/ \E id \in ItemIds : deleteItem(id)
    \/ confirmCancel
    \/ confirmDelete
    \/ \E f \in BagToSet(fetches) : confirmDeleteResumes(f)

PageSpec == Init /\ [][PageNext]_vars

\* ---------------------------------------------------------------- claims
Ids(items) == [i \in 1..Len(items) |-> IdOf(items[i])]

Mutating == {"create", "update", "delete"}

Succeeded == last.status \in {200, 201, 204}

\* The item a successful Create appended.
Created == file.items[Len(file.items)]

\* The position of the item a successful Update replaced.
Target == FindIndex(last.before.items, last.id)

\* C1: in every reachable state the ids of the persisted items are pairwise
\* distinct.
C1_IdsDistinct ==
    file.ok =>
        \A i, j \in 1..Len(file.items) :
            i # j => IdOf(file.items[i]) # IdOf(file.items[j])

\* C2: a successful Create stores and returns a record whose id is the
\* maximum id of the collection it read plus one, or 1 for an empty
\* collection, whatever the payload holds.
C2_CreateAssignsNextId ==
    (last.op = "create" /\ last.status = 201) =>
        /\ last.body[1].id = NextId(last.before.items)
        /\ Created.id = NextId(last.before.items)

\* C3 as stated: Create with a required field absent from the payload is
\* answered 400 and the persisted collection is what it was.
C3_MissingAnswered400 ==
    (last.op = "create" /\ Required \ DOMAIN last.payload # {}) =>
        (last.status = 400 /\ file = last.before)

\* C3 amended: Create with a required field absent from the payload never
\* changes the persisted collection; it is answered 400 when the backing
\* document could be read and 500 when it could not.
C3_MissingRejected ==
    (last.op = "create" /\ Required \ DOMAIN last.payload # {}) =>
        /\ file = last.before
        /\ last.status = IF last.io = "readfail" \/ ~last.before.ok THEN 500 ELSE 400

C3_Witness ==
    /\ last.op = "create" /\ last.status = 400
    /\ Required \ DOMAIN last.payload = {"quantity"}
    /\ Len(file.items) > 0

\* C4: a successful Update leaves the id of the record it replaced as it
\* was, in the document and in the response, whatever the payload holds, and
\* the ids of the collection are the same, position by position.
C4_UpdateKeepsId ==
    (last.op = "update" /\ last.status = 200) =>
        /\ file.items[Target].id = last.before.items[Target].id
        /\ last.body[1].id = last.before.items[Target].id
        /\ Ids(file.items) = Ids(last.before.items)

C4_Witness ==
    /\ last.op = "update" /\ last.status = 200
    /\ Has(last.payload, "id") /\ last.payload.id # last.body[1].id

\* C5: a mutating request answered with a status that is not 2xx leaves the
\* persisted collection as it was before the request.
C5_FailureChangesNothing ==
    (last.op \in Mutating /\ ~Succeeded) => file = last.before

RECURSIVE IsSubsequence(_, _)
\* a is b with some of its elements taken out.
IsSubsequence(a, b) ==
    IF a = <<>> THEN TRUE
    ELSE IF b = <<>> THEN FALSE
    ELSE IF Head(a) = Head(b) THEN IsSubsequence(Tail(a), Tail(b))
    ELSE IsSubsequence(a, Tail(b))

\* C6: lastUpdated changes only on the item a successful Create appends or
\* a successful Update replaces: after a Create the items that were there
\* keep theirs, after an Update every item but the target keeps its own,
\* after a Delete the remaining items are items of the old collection as
\* they were and in their order, and any other request leaves the document
\* as it was.
C6_StampFrame ==
    (file.ok /\ last.before.ok) =>
        CASE last.op = "create" /\ last.status = 201 ->
                /\ Len(file.items) = Len(last.before.items) + 1
                /\ \A i \in 1..Len(last.before.items) :
                      file.items[i].lastUpdated = last.before.items[i].lastUpdated
          [] last.op = "update" /\ last.status = 200 ->
                /\ Len(file.items) = Len(last.before.items)
                /\ \A i \in 1..Len(file.items) :
                      i # Target =>
                          file.items[i].lastUpdated = last.before.items[i].lastUpdated
          [] last.op = "delete" /\ last.status = 204 ->
                IsSubsequence(file.items, last.before.items)
          [] OTHER -> file = last.before

C6_Witness ==
    /\ last.op = "update" /\ last.status = 200
    /\ Len(file.items) > 1
    /\ file.items[Target].lastUpdated # last.before.items[Target].lastUpdated

\* C7: a successful Create or Update stamps the record with the clock as the
\* handler read it, not with the payload's lastUpdated; the stamp is no
\* earlier than the clock when the request arrived and, for an Update, no
\* earlier than the stamp the record had.
C7_StampIsClock ==
    /\ (last.op = "create" /\ last.status = 201) =>
          /\ Created.lastUpdated = Iso(now)
          /\ last.body[1].lastUpdated = Iso(now)
          /\ now >= last.began
    /\ (last.op = "update" /\ last.status = 200) =>
          /\ file.items[Target].lastUpdated = Iso(now)
          /\ last.body[1].lastUpdated = Iso(now)
          /\ last.before.items[Target].lastUpdated.t = "iso"
          /\ now >= last.before.items[Target].lastUpdated.n
          /\ now >= last.began

C7_Witness ==
    /\ last.op = "update" /\ last.status = 200
    /\ Has(last.payload, "lastUpdated")
    /\ last.payload.lastUpdated # Iso(now)
    /\ now > last.before.items[Target].lastUpdated.n

\* The path segment that `/api/items/${id}` gives for an id.
IsParamOf(param, id) ==
    \/ id.t = "str" /\ param = id.s
    \/ /\ id.t = "num"
       /\ ParseInt(param) = id
       /\ \A i \in 1..Len(Chars(param)) : IsDigit(Chars(param)[i])

\* C8: a Get of the id a successful Create returned, issued as the next
\* request and with the document readable, is answered 200 with the record
\* the Create returned.
C8_RoundTrip ==
    [][ ( /\ last.op = "create" /\ last.status = 201
          /\ last'.op = "get" /\ last'.io = "ok"
          /\ IsParamOf(last'.id, last.body[1].id) )
        => (last'.status = 200 /\ last'.body = last.body) ]_vars

\* C9: a Create on an empty collection returns id 1; a Create that follows
\* the deletion of the item with the maximum id returns the freed id, and
\* one that follows the deletion of another item does not.
C9_IdReuse ==
    [][ /\ ( /\ last'.op = "create" /\ last'.status = 201
             /\ last'.before.items = <<>> )
           => last'.body[1].id = Num(1)
        /\ ( /\ last.op = "delete" /\ last.status = 204
             /\ last'.op = "create" /\ last'.status = 201 )
           => LET freed == ParseInt(last.id)
                  wasMax == \A i \in 1..Len(last.before.items) :
                               IdOf(last.before.items[i]).n <= freed.n
              IN  IF wasMax THEN last'.body[1].id = freed
                  ELSE last'.body[1].id # freed ]_vars

\* A filter is present when the query names it with a non-empty string (the
\* frontend leaves a blank filter out of the query).
Named(q) == q.present /\ q.s # ""

\* One of productName, sku, supplier, location, lower-cased, contains the
\* lower-cased search term.
Contains(item, search) ==
    \E k \in {"productName", "sku", "supplier", "location"} :
        /\ Has(item, k)
        /\ item[k].t = "str"
        /\ Includes(ToLowerCase(Chars(item[k].s)), ToLowerCase(Chars(search)))

\* C10: List answers with the persisted items, in storage order, that
\* satisfy the filters that are present: the search term is contained,
\* without regard to case, in one of the four fields, and the category is
\* equal to the item's, with regard to case.
C10_ListFilters ==
    (last.op = "list" /\ last.io = "ok" /\ file.ok) =>
        LET wanted(it) ==
                /\ Named(last.search) => Contains(it, last.search.s)
                /\ Named(last.category) =>
                      (Has(it, "category") /\ it.category = Str(last.category.s))
        IN  /\ last.status = 200
            /\ last.body = SelectSeq(file.items, wanted)

\* C11: whenever the document can be read, List is answered 200, whatever
\* the items' fields hold and whatever the search term and category are,
\* and it leaves the persisted collection as it was.
C11_ListNeverFails ==
    (last.op = "list" /\ last.io = "ok" /\ last.before.ok) =>
        (last.status = 200 /\ file = last.before)

\* C12: a successful Update is a shallow merge.  In the stored and in the
\* returned record every key the payload names, id and lastUpdated apart,
\* has the payload's value; every key it does not name, lastUpdated apart,
\* has the value it had; the record has no other keys; it is where it was
\* in the collection and every other item is as it was.
C12_ShallowMerge ==
    (last.op = "update" /\ last.status = 200) =>
        LET old == last.before.items[Target]
            new == file.items[Target]
            named == (DOMAIN last.payload) \ {"id", "lastUpdated"}
            kept == (DOMAIN old) \ ((DOMAIN last.payload) \cup {"lastUpdated"})
        IN  /\ last.body[1] = new
            /\ \A k \in named : Has(new, k) /\ new[k] = last.payload[k]
            /\ \A k \in kept : Has(new, k) /\ new[k] = old[k]
            /\ DOMAIN new = (DOMAIN old) \cup named \cup {"id", "lastUpdated"}
            /\ new.id = old.id
            /\ Len(file.items) = Len(last.before.items)
            /\ \A i \in 1..Len(file.items) :
                  i # Target => file.items[i] = last.before.items[i]

C12_Witness ==
    /\ last.op = "update" /\ last.status = 200
    /\ Len(file.items) > 1
    /\ Has(last.payload, "category")
    /\ file.items[Target].category = last.payload.category
    /\ last.before.items[Target].category # last.payload.category
    /\ file.items[Target].supplier = last.before.items[Target].supplier

\* C13, as the specification has it: two mutating requests can both read the
\* same prior collection, that is, while one mutating handler has read and
\* not yet written, the server can start the handler of another.
C13_HandlersOverlap ==
    (running # {} /\ pending # {}) =>
        ENABLED (\E r \in pending, io \in ReadOutcomes : HandlerReads(r, io))

\* C13, amended: within the server process no update is lost.  A handler
\* that has read and not yet written holds the collection as it is
\* persisted, and the mutating requests answered 2xx each read the
\* collection the one before had written: no two read the same one.
C13_NoLostUpdate ==
    /\ \A h \in running : h.version = nwrites /\ h.items = file.items
    /\ \A i \in 1..Len(reads) : reads[i].version = i - 1

\* Two mutating requests waited at the server together, both were answered
\* 2xx, and the collection holds the effect of both.
C13_Witness ==
    /\ Len(reads) = 2
    /\ reads[1].req = Req("create", "", pWidget)
    /\ reads[2].req = Req("update", "1", [quantity |-> Num(9)])
    /\ reads[2].req \in reads[1].with
    /\ Len(file.items) = 4
    /\ file.items[4].sku = Str("W1")
    /\ file.items[1].quantity = Num(9)

\* C14: a Delete answered 204 removes exactly one item, the one with the
\* requested id: the collection is one shorter, and the other items are all
\* there, unchanged and in their order.
C14_DeleteRemovesOne ==
    (last.op = "delete" /\ last.status = 204) =>
        LET old == last.before.items
        IN  /\ Len(file.items) = Len(old) - 1
            /\ \E i \in 1..Len(old) :
                   /\ StrictEq(IdOf(old[i]), ParseInt(last.id))
                   /\ file.items = [j \in 1..(Len(old) - 1) |->
                                       IF j < i THEN old[j] ELSE old[j + 1]]

\* C15: however editItem, deleteItem, confirmDelete, closeModal, the form's
\* submission and the completion of fetches interleave, a PUT goes to the
\* id of the item whose fields openModal loaded into the form, and a DELETE
\* goes to the id last passed to deleteItem.
C15_TargetsIntended ==
    /\ sent.method = "PUT" => sent.id = sent.form
    /\ sent.method = "DELETE" => sent.id = sent.arg
====
